---- MODULE Spec2Model ----
(***************************************************************************)
(* A model of main.py of makaut_scraper: AbstractDownloader and its two    *)
(* variants, Downloader (one ranged scan) and Watcher (a polling loop).    *)
(* The main thread ("the orchestrator") and the worker threads interleave  *)
(* at the granularity of their operations on shared state: the session,    *)
(* the filesystem, the mutex and numDownloads.                             *)
(***************************************************************************)
EXTENDS Integers, Sequences, FiniteSets, TLC

\* ---------------------------------------------------------------- bounds
MaxUpper == 4        \* largest --upper the model passes
MaxLower == 2        \* largest --lower the model passes
MaxRange == 3        \* largest UPPERBOUND - LOWERBOUND the model scans
MaxPerThread == 2    \* largest --per_thread the model passes
MaxFdLimit == 2      \* largest RLIMIT_NOFILE the model's host reports
MaxWatchThreads == 3 \* threads the watch loop starts before the model stops it

\* ------------------------------------------------------- program constants
DefaultUPPERBOUND == 520000
DefaultLOWERBOUND == 406000
ok == 200
NotFound == 404

None == -1                           \* Python's None for an optional int
NetErr == 0                          \* "status" logged when session.get raised
ServerId == "707616547717311"
\* the --watch lists the model passes: one id, two ids, one id given twice
WatchLists == {<<41>>, <<41, 42>>, <<41, 41>>}

Truthy(x) == x # None /\ x # 0       \* `if x:` for x an int or None
Max(a, b) == IF a >= b THEN a ELSE b

VARIABLES
    mode,           \* "scan": a Downloader was constructed; "watch": a Watcher
    trace,          \* self.trace (not --silent)
    perThreadArg,   \* the per_thread argument of Downloader.__call__
    MAX_OPEN_FILE,  \* AbstractDownloader.MAX_OPEN_FILE on this host
    LOWERBOUND,     \* self.LOWERBOUND of a Downloader
    UPPERBOUND,     \* self.UPPERBOUND of a Downloader
    lowerArg,       \* the lowerbound argument of Downloader.__init__
    upperArg,       \* the upperbound argument of Downloader.__init__
    watch_ids,      \* self.watch_ids
    per_thread,     \* self.per_thread
    pc,             \* where the main thread is
    start,          \* Downloader.run: the loop variable of the spawning loop
    joined,         \* Downloader.run: how many threads the join loop has joined
    wi,             \* Watcher.run: index of the next watch id of this cycle
    loop_id,        \* Watcher.run: loop_id
    threads,        \* every thread started, in spawn order
    session,        \* self.__session: "none", "open", "closed"
    sessions,       \* how many requests.Session objects were created
    usedAfterClose, \* whether a GET was issued on the session after close()
    mutex,          \* self.mutex: 0 when free, else the index of the holder
    numDownloads,   \* self.numDownloads
    dirs,           \* directories that exist (paths under the cwd)
    files,          \* files that exist: pairs <<path, "empty" | "partial" | "complete">>
    time_taken      \* what the call of the functor returned to __main__

vars == <<mode, trace, perThreadArg, MAX_OPEN_FILE, LOWERBOUND, UPPERBOUND,
          lowerArg, upperArg, watch_ids, per_thread, pc, start, joined, wi,
          loop_id, threads, session, sessions, usedAfterClose, mutex,
          numDownloads, dirs, files, time_taken>>

inputs == <<mode, trace, perThreadArg, MAX_OPEN_FILE, LOWERBOUND, UPPERBOUND,
            lowerArg, upperArg, watch_ids>>

\* ------------------------------------------------------------ pure helpers
\* URLFMT.format(server_id=..., id=...): .../Latest/{server_id}/{id}/{id}.png
URLFMT(server_id, id) == <<server_id, id, id>>

\* os.path.basename(url): the last component, "<id>.png"
Basename(url) == <<url[Len(url)]>>

\* os.path.join(savedir, imagename)
Join(savedir, imagename) == savedir \o imagename

downloadDir == <<>>

\* faulty variant: the image name leaves the cycle number out
WatchImageNameWithoutCycle(watch_id, lp) == <<watch_id, 0>>

\* Watcher._thread: imagename = f'{watch_id}_{loop_id}.png'
WatchImageName(watch_id, lp) == <<watch_id, lp>>

\* Watcher._thread: savedir = os.path.join(self.downloadDir, str(watch_id))
WatchSaveDir(watch_id) == Join(downloadDir, <<watch_id>>)

\* the path _download writes for thread record th
ImagePath(th) ==
    IF th.kind = "scan"
    THEN Join(downloadDir, Basename(URLFMT(ServerId, th.i)))
    ELSE Join(WatchSaveDir(th.args[1]), WatchImageName(th.args[1], th.args[2]))

\* Downloader.__init__: the bound used
InitBound(arg, default) == IF Truthy(arg) THEN arg ELSE default

\* faulty variant: the limit caps the configured width
EffectivePerThreadCapped(arg, limit) == IF arg <= limit THEN arg ELSE limit

\* Downloader.__call__: self.per_thread
EffectivePerThread(arg, limit) == Max(arg, limit)

NewThread(kind, args) ==
    [kind |-> kind, args |-> args,
     pc |-> IF kind = "scan" THEN "get" ELSE "isdir",
     i |-> args[1], tmp |-> 0, saved |-> 0, nwritten |-> 0,
     exc |-> "none", log |-> <<>>]

Alive(th) == th.pc # "dead"

\* ------------------------------------------------------------------- Init
\* the state every run starts in, whatever was constructed
InitCommon ==
    /\ trace \in BOOLEAN
    /\ per_thread = None
    /\ pc = "call"
    /\ start = None
    /\ joined = 0
    /\ wi = 1
    /\ loop_id = 0
    /\ threads = <<>>
    /\ session = "none"
    /\ sessions = 0
    /\ usedAfterClose = FALSE
    /\ mutex = 0
    /\ numDownloads = 0
    /\ dirs = {}
    /\ files = {}
    /\ time_taken = "unset"

\* Downloader(server_id, upperbound, lowerbound) was constructed
ScanInit ==
    /\ mode = "scan"
    /\ MAX_OPEN_FILE \in 1..MaxFdLimit
    /\ perThreadArg \in 1..MaxPerThread
    /\ lowerArg \in {None} \cup 0..MaxLower
    /\ upperArg \in {None} \cup 0..MaxUpper
    /\ watch_ids = <<>>
    /\ LOWERBOUND = InitBound(lowerArg, DefaultLOWERBOUND)
    /\ UPPERBOUND = InitBound(upperArg, DefaultUPPERBOUND)
    /\ UPPERBOUND - LOWERBOUND <= MaxRange
    /\ InitCommon

\* Watcher(server_id, watch_ids) was constructed
WatchInit ==
    /\ mode = "watch"
    /\ MAX_OPEN_FILE = 1
    /\ perThreadArg = None
    /\ lowerArg = None
    /\ upperArg = None
    /\ LOWERBOUND = None
    /\ UPPERBOUND = None
    /\ watch_ids \in WatchLists
    /\ InitCommon

Init == ScanInit \/ WatchInit

\* ------------------------------------------------------- the main thread
\* Downloader.__call__ / AbstractDownloader.__call__ up to self.run()
Call ==
    /\ pc = "call"
    /\ per_thread' = IF mode = "scan"
                     THEN EffectivePerThread(perThreadArg, MAX_OPEN_FILE)
                     ELSE per_thread
    /\ dirs' = dirs \cup {downloadDir}
    /\ session' = "open"
    /\ sessions' = sessions + 1
    /\ numDownloads' = 0
    /\ start' = IF mode = "scan" THEN LOWERBOUND ELSE start
    /\ loop_id' = IF mode = "watch" THEN 1 ELSE loop_id
    /\ pc' = "run"
    /\ UNCHANGED <<inputs, joined, wi, threads, usedAfterClose, mutex, files,
                   time_taken>>

\* Downloader.run, the spawning loop: one iteration, or its end
ScanSpawn ==
    /\ pc = "run" /\ mode = "scan"
    /\ IF start < UPPERBOUND
       THEN /\ threads' = Append(threads,
                                 NewThread("scan", <<start, start + per_thread>>))
            /\ start' = start + per_thread
            /\ pc' = pc
       ELSE /\ pc' = "join"
            /\ UNCHANGED <<threads, start>>
    /\ UNCHANGED <<inputs, per_thread, joined, wi, loop_id, session, sessions,
                   usedAfterClose, mutex, numDownloads, dirs, files, time_taken>>

\* faulty variant: join() returns only for a thread that ended without an
\* exception
JoinReturnsOnlyIfClean(t) == ~Alive(threads[t]) /\ threads[t].exc = "none"

\* faulty variant: join() returns at once, whether or not the thread has ended
JoinReturnsAtOnce(t) == t \in DOMAIN threads

\* thread.join() returns once the thread has ended, however it ended
JoinReturns(t) == ~Alive(threads[t])

\* Downloader.run, the joining loop: one iteration, or its end
ScanJoin ==
    /\ pc = "join"
    /\ IF joined < Len(threads)
       THEN /\ JoinReturns(joined + 1)
            /\ joined' = joined + 1
            /\ pc' = pc
       ELSE /\ pc' = "close"
            /\ UNCHANGED joined
    /\ UNCHANGED <<inputs, per_thread, start, wi, loop_id, threads, session,
                   sessions, usedAfterClose, mutex, numDownloads, dirs, files,
                   time_taken>>

\* Watcher.run: one iteration of the for loop over watch_ids, or its end
WatchSpawn ==
    /\ pc = "run" /\ mode = "watch"
    /\ Len(threads) < MaxWatchThreads
    /\ IF wi <= Len(watch_ids)
       THEN /\ threads' = Append(threads,
                                 NewThread("watch", <<watch_ids[wi], loop_id>>))
            /\ wi' = wi + 1
            /\ pc' = pc
       ELSE /\ pc' = "sleep"
            /\ UNCHANGED <<threads, wi>>
    /\ UNCHANGED <<inputs, per_thread, start, joined, loop_id, session, sessions,
                   usedAfterClose, mutex, numDownloads, dirs, files, time_taken>>

\* faulty variant: after the sleep the loop ends by itself when every worker
\* started so far has ended
WatchSleepEndsLoop ==
    /\ pc = "sleep"
    /\ loop_id' = loop_id + 1
    /\ wi' = 1
    /\ pc' = IF \A t \in DOMAIN threads : ~Alive(threads[t])
             THEN "close" ELSE "run"
    /\ UNCHANGED <<inputs, per_thread, start, joined, threads, session, sessions,
                   usedAfterClose, mutex, numDownloads, dirs, files, time_taken>>

\* faulty variant: the sleep returns and loop_id is left as it was
WatchSleepWithoutIncrement ==
    /\ pc = "sleep"
    /\ loop_id' = loop_id
    /\ wi' = 1
    /\ pc' = "run"
    /\ UNCHANGED <<inputs, per_thread, start, joined, threads, session, sessions,
                   usedAfterClose, mutex, numDownloads, dirs, files, time_taken>>

\* Watcher.run: time.sleep(WAIT_TIME) returns; loop_id += 1
WatchSleep ==
    /\ pc = "sleep"
    /\ loop_id' = loop_id + 1
    /\ wi' = 1
    /\ pc' = "run"
    /\ UNCHANGED <<inputs, per_thread, start, joined, threads, session, sessions,
                   usedAfterClose, mutex, numDownloads, dirs, files, time_taken>>

\* Watcher.run: KeyboardInterrupt inside the try block; break
Interrupt ==
    /\ mode = "watch"
    /\ pc \in {"run", "sleep"}
    /\ pc' = "close"
    /\ UNCHANGED <<inputs, per_thread, start, joined, wi, loop_id, threads,
                   session, sessions, usedAfterClose, mutex, numDownloads, dirs,
                   files, time_taken>>

\* AbstractDownloader.__call__ after self.run(): close the session, return the
\* elapsed time; Downloader.__call__ drops that value and returns None
Close ==
    /\ pc = "close"
    /\ session' = "closed"
    /\ time_taken' = IF mode = "scan" THEN "None" ELSE "elapsed"
    /\ pc' = "summary"
    /\ UNCHANGED <<inputs, per_thread, start, joined, wi, loop_id, threads,
                   sessions, usedAfterClose, mutex, numDownloads, dirs, files>>

\* __main__: print the summary with '%d' % time_taken, then the process ends
\* and takes its daemon threads with it
Summary ==
    /\ pc = "summary"
    /\ pc' = IF time_taken = "None" THEN "TypeError" ELSE "exited"
    /\ threads' = [t \in DOMAIN threads |->
                     IF Alive(threads[t])
                     THEN [threads[t] EXCEPT !.pc = "dead", !.exc = "killed"]
                     ELSE threads[t]]
    /\ mutex' = 0
    /\ UNCHANGED <<inputs, per_thread, start, joined, wi, loop_id, session,
                   sessions, usedAfterClose, numDownloads, dirs, files,
                   time_taken>>

\* ----------------------------------------------------- the worker threads
\* open(path, 'wb') and the writes: the file at path now holds content
FileWrite(fs, path, content) ==
    {f \in fs : f[1] # path} \cup {<<path, content>>}

\* thread t goes on as th; the main thread is not touched
Continue(t, th) ==
    /\ threads' = [threads EXCEPT ![t] = th]
    /\ pc' = pc

\* faulty variant: an exception that leaves a thread's target takes the process down
RaiseKillsProcess(t, e) ==
    /\ threads' = [u \in DOMAIN threads |->
                     IF u = t
                     THEN [threads[u] EXCEPT !.pc = "dead", !.exc = e]
                     ELSE [threads[u] EXCEPT !.pc = "dead"]]
    /\ pc' = "killed"

\* an exception e leaves the target of thread t: the thread ends (the
\* interpreter reports it), every other thread and the main thread go on
Raise(t, e) ==
    /\ threads' = [threads EXCEPT ![t] = [@ EXCEPT !.pc = "dead", !.exc = e]]
    /\ pc' = pc

\* faulty variant: a scan worker that got no image tries the same id again
ReturnedWithRetry(th) ==
    IF th.kind = "scan"
    THEN IF th.saved = 0 /\ Len(th.log) < 2
         THEN [th EXCEPT !.pc = "get"]
         ELSE [th EXCEPT !.i = @ + 1,
                         !.pc = IF th.i + 1 < th.args[2] THEN "get" ELSE "dead"]
    ELSE [th EXCEPT !.pc = "dead"]

\* _download has returned to _thread: a scan worker takes the next id of
\* generate_links(start, stop), a watch worker is finished
Returned(th) ==
    IF th.kind = "scan"
    THEN [th EXCEPT !.i = @ + 1,
                    !.pc = IF th.i + 1 < th.args[2] THEN "get" ELSE "dead"]
    ELSE [th EXCEPT !.pc = "dead"]

\* Watcher._thread: os.path.isdir(savedir)
IsDir(t) ==
    /\ threads[t].pc = "isdir"
    /\ Continue(t, [threads[t] EXCEPT !.pc =
            IF WatchSaveDir(threads[t].args[1]) \in dirs THEN "get" ELSE "makedirs"])
    /\ UNCHANGED <<inputs, per_thread, start, joined, wi, loop_id, session,
                   sessions, usedAfterClose, mutex, numDownloads, dirs, files,
                   time_taken>>

\* os.makedirs(path, exist_ok) called by thread t: the directory exists
\* afterwards; FileExistsError when it was there already, unless exist_ok
OsMakeDirs(t, path, exist_ok) ==
    IF path \in dirs /\ ~exist_ok
    THEN /\ Raise(t, "FileExistsError")
         /\ UNCHANGED dirs
    ELSE /\ dirs' = dirs \cup {path}
         /\ Continue(t, [threads[t] EXCEPT !.pc = "get"])

\* faulty variant: os.makedirs(savedir) without exist_ok
MakeDirsExclusive(t) ==
    /\ threads[t].pc = "makedirs"
    /\ OsMakeDirs(t, WatchSaveDir(threads[t].args[1]), FALSE)
    /\ UNCHANGED <<inputs, per_thread, start, joined, wi, loop_id, session,
                   sessions, usedAfterClose, mutex, numDownloads, files,
                   time_taken>>

\* Watcher._thread: os.makedirs(savedir, exist_ok=True)
MakeDirs(t) ==
    /\ threads[t].pc = "makedirs"
    /\ OsMakeDirs(t, WatchSaveDir(threads[t].args[1]), TRUE)
    /\ UNCHANGED <<inputs, per_thread, start, joined, wi, loop_id, session,
                   sessions, usedAfterClose, mutex, numDownloads, files,
                   time_taken>>

\* faulty variant: the GET without its try/except
GetUnguarded(t) ==
    /\ threads[t].pc = "get"
    /\ \E status \in {NetErr, ok, NotFound} :
         LET th == [threads[t] EXCEPT !.log = Append(@, <<threads[t].i, status>>)]
         IN  IF status = ok
             THEN Continue(t, [th EXCEPT !.pc = "open"])
             ELSE IF status = NetErr
             THEN Continue(t, [th EXCEPT !.pc = "dead", !.exc = "ConnectionError"])
             ELSE Continue(t, Returned(th))
    /\ usedAfterClose' = (usedAfterClose \/ session = "closed")
    /\ UNCHANGED <<inputs, per_thread, start, joined, wi, loop_id, session,
                   sessions, mutex, numDownloads, dirs, files, time_taken>>

\* _download: self.__session.get(url) inside try/except, then the status test
Get(t) ==
    /\ threads[t].pc = "get"
    /\ \E status \in {NetErr, ok, NotFound} :
         LET th == [threads[t] EXCEPT !.log = Append(@, <<threads[t].i, status>>)]
         IN  IF status = ok
             THEN Continue(t, [th EXCEPT !.pc = "open"])
             ELSE Continue(t, Returned(th))
    /\ usedAfterClose' = (usedAfterClose \/ session = "closed")
    /\ UNCHANGED <<inputs, per_thread, start, joined, wi, loop_id, session,
                   sessions, mutex, numDownloads, dirs, files, time_taken>>

\* _download: open(imagepath, 'wb'), which creates or truncates the file
Open(t) ==
    /\ threads[t].pc = "open"
    /\ \/ /\ files' = FileWrite(files, ImagePath(threads[t]), "empty")
          /\ Continue(t, [threads[t] EXCEPT !.pc = "write"])
       \/ /\ Raise(t, "IOError")
          /\ UNCHANGED files
    /\ UNCHANGED <<inputs, per_thread, start, joined, wi, loop_id, session,
                   sessions, usedAfterClose, mutex, numDownloads, dirs,
                   time_taken>>

\* faulty variant: a failed write is caught and the download counted all the same
WriteFailureCounted(t) ==
    /\ threads[t].pc = "write"
    /\ \/ /\ files' = FileWrite(files, ImagePath(threads[t]), "complete")
          /\ Continue(t, [threads[t] EXCEPT !.pc = "lock", !.nwritten = @ + 1])
       \/ /\ files' = FileWrite(files, ImagePath(threads[t]), "partial")
          /\ Continue(t, [threads[t] EXCEPT !.pc = "lock"])
    /\ UNCHANGED <<inputs, per_thread, start, joined, wi, loop_id, session,
                   sessions, usedAfterClose, mutex, numDownloads, dirs,
                   time_taken>>

\* _download: the loop of imageFile.write(chunk) and the close of the file
Write(t) ==
    /\ threads[t].pc = "write"
    /\ \/ /\ files' = FileWrite(files, ImagePath(threads[t]), "complete")
          /\ Continue(t, [threads[t] EXCEPT !.pc = "lock", !.nwritten = @ + 1])
       \/ /\ files' = FileWrite(files, ImagePath(threads[t]), "partial")
          /\ Raise(t, "IOError")
    /\ UNCHANGED <<inputs, per_thread, start, joined, wi, loop_id, session,
                   sessions, usedAfterClose, mutex, numDownloads, dirs,
                   time_taken>>

\* faulty variant: the block is entered without waiting for the mutex
AcquireWithoutWaiting(t) ==
    /\ threads[t].pc = "lock"
    /\ mutex' = t
    /\ Continue(t, [threads[t] EXCEPT !.pc = IF trace THEN "print" ELSE "load"])
    /\ UNCHANGED <<inputs, per_thread, start, joined, wi, loop_id, session,
                   sessions, usedAfterClose, numDownloads, dirs, files,
                   time_taken>>

\* _download: `with self.mutex:` entered
Acquire(t) ==
    /\ threads[t].pc = "lock"
    /\ mutex = 0
    /\ mutex' = t
    /\ Continue(t, [threads[t] EXCEPT !.pc = IF trace THEN "print" ELSE "load"])
    /\ UNCHANGED <<inputs, per_thread, start, joined, wi, loop_id, session,
                   sessions, usedAfterClose, numDownloads, dirs, files,
                   time_taken>>

\* _download: print(f'Downloaded {imagename}')
PrintDownloaded(t) ==
    /\ threads[t].pc = "print"
    /\ Continue(t, [threads[t] EXCEPT !.pc = "load"])
    /\ UNCHANGED <<inputs, per_thread, start, joined, wi, loop_id, session,
                   sessions, usedAfterClose, mutex, numDownloads, dirs, files,
                   time_taken>>

\* _download: self.numDownloads += 1, the read
Load(t) ==
    /\ threads[t].pc = "load"
    /\ Continue(t, [threads[t] EXCEPT !.pc = "store", !.tmp = numDownloads])
    /\ UNCHANGED <<inputs, per_thread, start, joined, wi, loop_id, session,
                   sessions, usedAfterClose, mutex, numDownloads, dirs, files,
                   time_taken>>

\* faulty variant: the mutex is acquired by hand and never released
StoreWithoutRelease(t) ==
    /\ threads[t].pc = "store"
    /\ numDownloads' = threads[t].tmp + 1
    /\ mutex' = mutex
    /\ Continue(t, Returned([threads[t] EXCEPT !.tmp = 0, !.saved = @ + 1]))
    /\ UNCHANGED <<inputs, per_thread, start, joined, wi, loop_id, session,
                   sessions, usedAfterClose, dirs, files, time_taken>>

\* _download: self.numDownloads += 1, the write; the with block ends and
\* releases the mutex; return imagepath
Store(t) ==
    /\ threads[t].pc = "store"
    /\ numDownloads' = threads[t].tmp + 1
    /\ mutex' = IF mutex = t THEN 0 ELSE mutex
    /\ Continue(t, Returned([threads[t] EXCEPT !.tmp = 0, !.saved = @ + 1]))
    /\ UNCHANGED <<inputs, per_thread, start, joined, wi, loop_id, session,
                   sessions, usedAfterClose, dirs, files, time_taken>>

ScanWorker(t) ==
    \/ Get(t)
    \/ Open(t)
    \/ Write(t)
    \/ Acquire(t)
    \/ PrintDownloaded(t)
    \/ Load(t)
    \/ Store(t)

WatchWorker(t) ==
    \/ IsDir(t)
    \/ MakeDirs(t)
    \/ ScanWorker(t)

ScanNext ==
    \/ Call
    \/ ScanSpawn
    \/ ScanJoin
    \/ Close
    \/ Summary
    \/ \E t \in DOMAIN threads : ScanWorker(t)

WatchNext ==
    \/ Call
    \/ WatchSpawn
    \/ WatchSleep
    \/ Interrupt
    \/ Close
    \/ Summary
    \/ \E t \in DOMAIN threads : WatchWorker(t)

Next == ScanNext \/ WatchNext

\* every run
Spec == Init /\ [][Next]_vars

\* the runs of a Downloader
ScanSpec == ScanInit /\ [][ScanNext]_vars

\* the runs of a Watcher
WatchSpec == WatchInit /\ [][WatchNext]_vars

\* the runs of a Downloader in which a thread that can take a step, the main
\* thread or a worker, is not held back forever
FairScanSpec == ScanSpec /\ WF_vars(ScanNext)

\* ----------------------------------------------------------- the claims
RECURSIVE TotalSaved(_)
\* how many calls of _download returned an image path, over the threads ths
TotalSaved(ths) ==
    IF ths = <<>> THEN 0
    ELSE ths[Len(ths)].saved + TotalSaved(SubSeq(ths, 1, Len(ths) - 1))

RECURSIVE TotalWritten(_)
\* how many file writes ran to completion, over the threads ths
TotalWritten(ths) ==
    IF ths = <<>> THEN 0
    ELSE ths[Len(ths)].nwritten + TotalWritten(SubSeq(ths, 1, Len(ths) - 1))

\* the ids thread record th has issued a GET for
Attempted(th) == {th.log[k][1] : k \in DOMAIN th.log}

\* th has issued a GET for every id of the range it was handed
WholeChunk(th) == \A id \in th.args[1]..(th.args[2] - 1) : id \in Attempted(th)

\* the ids whose GET returned status 200
Got200 == {id \in LOWERBOUND..(UPPERBOUND - 1) :
             \E t \in DOMAIN threads : <<id, ok>> \in
                 {threads[t].log[k] : k \in DOMAIN threads[t].log}}

\* Downloader.run has left its spawning loop
ScanSpawned == mode = "scan" /\ pc \in {"join", "close", "summary", "TypeError"}

\* Downloader.run has returned
ScanReturned == mode = "scan" /\ pc \in {"close", "summary", "TypeError"}

\* C1: the ranges handed to the scan workers, in spawn order, reconstruct
\* [LOWERBOUND, UPPERBOUND) without gap or overlap, and the last range is
\* (UPPERBOUND - LOWERBOUND) mod per_thread wide when that is nonzero, else
\* per_thread wide.
C1_ChunksReconstructRange ==
    (ScanSpawned /\ LOWERBOUND < UPPERBOUND) =>
        LET n == Len(threads)
            r == (UPPERBOUND - LOWERBOUND) % per_thread
        IN  /\ n >= 1
            /\ threads[1].args[1] = LOWERBOUND
            /\ \A k \in 1..(n - 1) : threads[k].args[2] = threads[k + 1].args[1]
            /\ \A k \in 1..n : threads[k].args[1] < threads[k].args[2]
            /\ threads[n].args[2] = UPPERBOUND
            /\ threads[n].args[2] - threads[n].args[1]
                   = (IF r # 0 THEN r ELSE per_thread)

\* C2: when the scan has finished and no storage write failed, the files
\* written are exactly <id>.png for the ids of [LOWERBOUND, UPPERBOUND) whose
\* GET returned 200, and numDownloads is their number.
C2_FilesAreExactlyTheOkIds ==
    (ScanReturned /\ \A t \in DOMAIN threads : threads[t].exc = "none") =>
        /\ {f[1] : f \in files} = {Join(downloadDir, <<id>>) : id \in Got200}
        /\ numDownloads = Cardinality(Got200)

\* C3: a scan worker whose storage write failed for one id has still issued
\* a GET for every other id of its chunk by the time the scan has finished.
C3_PersistFailureIsolatedPerId ==
    ScanReturned =>
        \A t \in DOMAIN threads :
            threads[t].exc = "IOError" => WholeChunk(threads[t])

\* C4: once a storage write has failed in one worker, the main thread is not
\* taken down and no other worker is: the join loop can pass every ended
\* thread, and when the scan has returned every worker that had no failure
\* of its own has processed its whole chunk; after close the session is
\* closed; the watch loop is still polling unless it was interrupted.
C4_FailureStaysInItsWorker ==
    (\E t \in DOMAIN threads : threads[t].exc = "IOError") =>
        /\ pc \in {"run", "sleep", "join", "close", "summary", "exited", "TypeError"}
        /\ (mode = "watch" /\ session = "open") => pc \in {"run", "sleep", "close"}
        /\ pc \in {"run", "sleep", "join", "close", "summary"} =>
               \A u \in DOMAIN threads : threads[u].exc \in {"none", "IOError"}
        /\ (mode = "scan" /\ pc = "join"
              /\ \A u \in DOMAIN threads : ~Alive(threads[u])) => ENABLED ScanJoin
        /\ ScanReturned =>
               \A u \in DOMAIN threads :
                   threads[u].exc = "none" => WholeChunk(threads[u])
        /\ (mode = "scan" /\ pc \in {"summary", "TypeError"}) => session = "closed"

\* C4 witness: a scan has returned and closed the session although one worker
\* died of a failed write, and a sibling processed its whole chunk.
C4_Witness ==
    /\ mode = "scan" /\ pc = "summary" /\ session = "closed"
    /\ \E t, u \in DOMAIN threads :
          /\ threads[t].exc = "IOError"
          /\ threads[u].exc = "none" /\ WholeChunk(threads[u])
          /\ threads[u].saved >= 1

\* C5: a GET that raised, or that returned a status other than 200, writes no
\* file, leaves numDownloads alone and raises nothing in the worker; a scan
\* worker goes on to the next id of its chunk, or ends when there is none.
C5_FetchFailureIsSwallowed ==
    [][\A t \in DOMAIN threads :
          (/\ threads[t].pc = "get"
           /\ Len(threads'[t].log) = Len(threads[t].log) + 1
           /\ threads'[t].log[Len(threads'[t].log)][2] # ok)
          => /\ files' = files
             /\ numDownloads' = numDownloads
             /\ threads'[t].exc = "none"
             /\ threads'[t].saved = threads[t].saved
             /\ threads[t].kind = "scan" =>
                   /\ threads'[t].i = threads[t].i + 1
                   /\ threads'[t].pc =
                        (IF threads[t].i + 1 < threads[t].args[2]
                         THEN "get" ELSE "dead")]_vars

\* C5 witness: a scan worker whose first GET raised and whose second GET
\* returned 404 has ended without exception, with no file and no count.
C5_Witness ==
    \E t \in DOMAIN threads :
        /\ threads[t].kind = "scan"
        /\ Len(threads[t].log) = 2
        /\ threads[t].log[1][2] = NetErr
        /\ threads[t].log[2][2] = NotFound
        /\ threads[t].pc = "dead" /\ threads[t].exc = "none"
        /\ files = {} /\ numDownloads = 0

\* C6: one session per run, and no GET is issued on it after close().
C6_SessionNeverUsedAfterClose ==
    sessions <= 1 /\ ~usedAfterClose

\* C7: no increment is lost: when the scan has returned, numDownloads is the
\* number of downloads that returned an image path.
C7_NoLostIncrement ==
    ScanReturned => numDownloads = TotalSaved(threads)

\* C7 witness: a finished scan in which two workers each saved an image.
C7_Witness ==
    /\ ScanReturned
    /\ \E t, u \in DOMAIN threads :
          t # u /\ threads[t].saved >= 1 /\ threads[u].saved >= 1

\* C8: numDownloads never decreases, each change adds exactly one and is made
\* by a worker whose file write has completed, once per saved download; so
\* numDownloads is at most the number of completed file writes.
C8_CounterFollowsWrites ==
    /\ [](numDownloads <= TotalWritten(threads))
    /\ [][/\ numDownloads' >= numDownloads
          /\ numDownloads' # numDownloads =>
               /\ numDownloads' = numDownloads + 1
               /\ \E t \in DOMAIN threads :
                     /\ threads'[t].saved = threads[t].saved + 1
                     /\ threads'[t].saved = threads[t].nwritten
                     /\ \A u \in DOMAIN threads \ {t} :
                           threads'[u].saved = threads[u].saved]_vars

\* C8 witness: two downloads counted, both writes complete.
C8_Witness ==
    numDownloads = 2 /\ TotalWritten(threads) = 2

\* C9 as claimed: a worker holding the mutex is only ever at the increment.
C9_OnlyIncrementUnderMutex ==
    \A t \in DOMAIN threads :
        mutex = t => threads[t].pc \in {"load", "store"}

\* C9 as amended: a worker holding the mutex is at the completion message
\* (only when trace is on) or at the increment, never at the GET, the open
\* or the write.
C9_NoFetchOrWriteUnderMutex ==
    /\ mutex \in {0} \cup DOMAIN threads
    /\ \A t \in DOMAIN threads :
          mutex = t =>
              /\ threads[t].pc \in {"print", "load", "store"}
              /\ threads[t].pc = "print" => trace

\* C9 witness: the holder of the mutex is at the print while another worker
\* is at its file write.
C9_Witness ==
    \E t, u \in DOMAIN threads :
        /\ mutex = t /\ threads[t].pc = "print"
        /\ threads[u].pc = "write"

\* C10: the scan returns, the session is closed and the counter is read only
\* when every chunk has its worker and every worker has ended.
C10_DoneOnlyAfterAllWorkers ==
    (mode = "scan" /\ (pc \in {"close", "summary", "TypeError"} \/ session = "closed")) =>
        /\ start >= UPPERBOUND
        /\ joined = Len(threads)
        /\ \A t \in DOMAIN threads : ~Alive(threads[t])

\* C10 witness: the session of a scan with two workers has been closed.
C10_Witness ==
    /\ mode = "scan" /\ session = "closed" /\ Len(threads) >= 2
    /\ \E t \in DOMAIN threads : threads[t].saved >= 1

\* C11: when a scan has completed, the call of the Downloader has handed the
\* elapsed time to __main__, which can print the summary with it.
C11_ScanReturnsElapsed ==
    (mode = "scan" /\ pc \in {"summary", "exited", "TypeError"}) =>
        /\ time_taken = "elapsed"
        /\ pc # "TypeError"

\* no id occurs twice in the sequence s
Distinct(s) == \A i, j \in DOMAIN s : i # j => s[i] # s[j]

\* C12: with a watch list of distinct ids no two workers have the same image
\* path, every file is <id>/<id>_<cycle>.png of a worker that got that far,
\* the step of a worker touches no other file, and a complete snapshot is
\* never replaced or truncated afterwards.
C12_WatchWritesNeverCollide ==
    /\ []((mode = "watch" /\ Distinct(watch_ids)) =>
            /\ \A t, u \in DOMAIN threads :
                  t # u => ImagePath(threads[t]) # ImagePath(threads[u])
            /\ \A f \in files : \E t \in DOMAIN threads :
                  /\ f[1] = <<threads[t].args[1], threads[t].args[1],
                              threads[t].args[2]>>
                  /\ threads[t].pc \notin {"isdir", "makedirs", "get", "open"})
    /\ [][(mode = "watch" /\ Distinct(watch_ids)) =>
            /\ \A f \in files : f[2] = "complete" => f \in files'
            /\ \A t \in DOMAIN threads :
                  threads'[t] # threads[t] =>
                      \A f \in files' \ files :
                          f[1] = <<threads[t].args[1], threads[t].args[1],
                                   threads[t].args[2]>>]_vars

\* C12 witness: the snapshots of id 41 of cycle 1 and of cycle 2 both exist,
\* complete, beside each other.
C12_Witness ==
    /\ mode = "watch" /\ Distinct(watch_ids)
    /\ <<<<41, 41, 1>>, "complete">> \in files
    /\ <<<<41, 41, 2>>, "complete">> \in files

\* C13: the cycle number is 1 when the watch loop starts and grows by one with
\* each completed sleep and at no other step; the k-th thread started is the
\* worker of the ((k-1) mod L + 1)-th id of the watch list in cycle
\* (k-1) div L + 1, L the length of the list: one worker per id and cycle, in
\* list order, cycle n before cycle n+1; the loop sleeps only when the cycle
\* is fully spawned.
C13_CyclesSpawnInOrder ==
    /\ []((mode = "watch" /\ pc # "call") =>
            LET L == Len(watch_ids)
            IN  /\ loop_id >= 1
                /\ \A k \in DOMAIN threads :
                      threads[k].args = <<watch_ids[((k - 1) % L) + 1],
                                          ((k - 1) \div L) + 1>>
                /\ Len(threads) = (loop_id - 1) * L + (wi - 1)
                /\ pc = "sleep" => wi = L + 1)
    /\ [][mode = "watch" =>
            /\ (pc = "call" /\ pc' # "call") => loop_id' = 1
            /\ pc # "call" =>
                  \/ loop_id' = loop_id /\ ~(pc = "sleep" /\ pc' = "run")
                  \/ loop_id' = loop_id + 1 /\ pc = "sleep" /\ pc' = "run"]_vars

\* C13 witness: the first worker of cycle 2 has been started while a worker
\* of cycle 1 has not yet taken a step.
C13_Witness ==
    /\ mode = "watch" /\ watch_ids = <<41, 42>> /\ Len(threads) = 3
    /\ threads[3].args = <<41, 2>>
    /\ threads[1].pc = "isdir"
    /\ threads[2].pc # "isdir"

\* C14: the watch loop is left by the interrupt step and by no other step,
\* whatever the workers do; once it is left it is never entered again and no
\* further thread is started.
C14_StoppedOnlyByInterrupt ==
    [][mode = "watch" =>
         /\ (pc \in {"run", "sleep"} /\ pc' \notin {"run", "sleep"}) => Interrupt
         /\ pc \in {"close", "summary", "exited"} =>
               /\ pc' \in {"close", "summary", "exited"}
               /\ Len(threads') = Len(threads)
         /\ pc = "exited" => pc' = "exited"]_vars

\* C14 witness: a watch loop that ran into its second cycle, with a worker
\* dead of a failed write, has been interrupted and has stopped.
C14_Witness ==
    /\ mode = "watch" /\ pc = "summary" /\ loop_id >= 2
    /\ \E t \in DOMAIN threads : threads[t].exc = "IOError"

\* C15: when the scan has returned, no file exists for an id whose GET failed
\* or whose write did not complete, and the files present are as many as the
\* downloads counted.
C15_FailedIdNeverInStorage ==
    ScanReturned =>
        /\ \A t \in DOMAIN threads :
              /\ \A k \in DOMAIN threads[t].log :
                    threads[t].log[k][2] # ok =>
                        ~\E f \in files :
                            f[1] = Join(downloadDir, <<threads[t].log[k][1]>>)
              /\ threads[t].exc = "IOError" =>
                    ~\E f \in files : f[1] = Join(downloadDir, <<threads[t].i>>)
        /\ Cardinality(files) = numDownloads

C17_ChunkInAscendingOrder ==
    \A t \in DOMAIN threads :
        LET th == threads[t]
            n == Len(th.log)
        IN  th.kind = "scan" =>
              /\ \A k \in 1..n : th.log[k][1] = th.args[1] + k - 1
              /\ n <= th.args[2] - th.args[1]
              /\ th.pc = "get" => th.i = th.args[1] + n /\ th.i < th.args[2]
              /\ th.pc \in {"open", "write", "lock", "print", "load", "store"} =>
                    n >= 1 /\ th.i = th.log[n][1] /\ th.log[n][2] = ok
              /\ (th.pc = "dead" /\ th.exc = "none") =>
                    n = th.args[2] - th.args[1] /\ th.i = th.args[2]

\* C17 witness: a scan worker has gone through a chunk of two ids, the first
\* saved, the second not found.
C17_Witness ==
    \E t \in DOMAIN threads :
        /\ threads[t].kind = "scan" /\ threads[t].pc = "dead"
        /\ Len(threads[t].log) = 2
        /\ threads[t].log[1][2] = ok /\ threads[t].log[2][2] = NotFound
        /\ threads[t].saved = 1

\* C18: a started scan runs to completion: eventually every worker has ended,
\* each one that met no exception having processed its whole chunk, the join
\* loop has passed them all, run() has returned and the session is closed;
\* the main thread of a scan is never anywhere but on that path.
C18_ScanRunsToCompletion ==
    /\ <>(/\ pc \in {"summary", "TypeError"}
          /\ session = "closed"
          /\ joined = Len(threads)
          /\ \A t \in DOMAIN threads :
                /\ ~Alive(threads[t])
                /\ threads[t].exc = "none" => WholeChunk(threads[t]))
    /\ [](pc \in {"call", "run", "join", "close", "summary", "TypeError"})

\* C18 witness: a scan of two chunks has completed, every worker through its
\* whole chunk.
C18_Witness ==
    /\ mode = "scan" /\ pc = "summary" /\ session = "closed"
    /\ Len(threads) >= 2
    /\ \A t \in DOMAIN threads :
          threads[t].exc = "none" /\ WholeChunk(threads[t])

\* C19: however the watch workers interleave their isdir test and their
\* makedirs on the same per-id subdirectory, none of them fails on it, the
\* subdirectory exists for every worker that is past the two steps, and the
\* only directories are the download directory and one per watched id.
C19_EnsureDirIsIdempotent ==
    /\ dirs \subseteq {downloadDir} \cup
           {WatchSaveDir(watch_ids[k]) : k \in DOMAIN watch_ids}
    /\ \A t \in DOMAIN threads :
          threads[t].kind = "watch" =>
              /\ threads[t].exc # "FileExistsError"
              /\ (threads[t].pc \notin {"isdir", "makedirs"}
                    /\ threads[t].exc \in {"none", "IOError"}) =>
                     WatchSaveDir(threads[t].args[1]) \in dirs

\* C19 witness: two workers of id 41 both found the subdirectory missing; one
\* has created it and gone on, the other is about to call makedirs on it.
C19_Witness ==
    \E t, u \in DOMAIN threads :
        /\ t # u /\ threads[t].args[1] = 41 /\ threads[u].args[1] = 41
        /\ threads[t].pc = "makedirs"
        /\ threads[u].pc \in {"get", "open", "write"}
        /\ WatchSaveDir(41) \in dirs

\* C20: a scan constructed with bounds lower < upper scans from lower up to
\* the bound upper: once the workers are started, the bounds in use are the
\* ones supplied and the first worker starts at lower.
C20_ScanSpaceIsSuppliedRange ==
    (ScanSpawned /\ lowerArg # None /\ upperArg # None /\ lowerArg < upperArg) =>
        /\ LOWERBOUND = lowerArg
        /\ UPPERBOUND = upperArg
        /\ Len(threads) >= 1
        /\ threads[1].args[1] = lowerArg

====
